---------------------------- MODULE Spec2Model ----------------------------
(***************************************************************************)
(* Live channel addressing (parseLiveChannelAddress,                       *)
(* isValidLiveChannelAddress), the channel connection lifecycle, and       *)
(* GrafanaDatasource.query and GrafanaDatasource.annotationQuery.          *)
(*                                                                         *)
(* A JavaScript string is a sequence of one-character strings.  A          *)
(* JavaScript value is a record with a tag: "undefined", "null",           *)
(* "string" (val is the string) or "object" (an address).                  *)
(***************************************************************************)
EXTENDS Integers, Sequences, FiniteSets, TLC

VARIABLES
    \* ---- address parsing (SpecParse)
    pStep,      \* "id" | "address" | "composed" | "parsed" | "validated"
    pId,        \* the id handed to parseLiveChannelAddress (a JS value)
    pAddr,      \* the address handed to / returned by the functions
    pOrig,      \* the address an id was composed from (Undefined if none)
    pValid,     \* the result of isValidLiveChannelAddress
    \* ---- channel connection lifecycle (SpecChannel)
    chState,    \* "none" or a LiveChannelConnectionState
    chError,    \* the error of the current status: "none" or an error
    chPresent,  \* whether the user has joined
    chEvents,   \* the events emitted on the stream so far
    chDone,     \* the stream has completed
    chInput,    \* the last input delivered to the channel
    chSteps,    \* number of inputs delivered
    \* ---- GrafanaDatasource (Spec)
    counter,    \* the module-level counter
    keys,       \* the key of every getLiveDataStream call so far, in order
    nQueries,   \* number of query calls so far
    lastReq,    \* the request of the query call that just returned, or Undefined
    lastLive,   \* the getLiveDataStream calls of the last query call
    lastFetch,  \* the backend fetches built by the last query call
    lastStreams,\* the queries array of the last query call
    lastResult, \* what the last query call returned
    annOptions, \* the options of the annotationQuery call that just returned, or Undefined
    annGets,    \* the getBackendSrv().get calls of that annotationQuery call
    annResult   \* what that annotationQuery call returned

parseVars == <<pStep, pId, pAddr, pOrig, pValid>>
chanVars  == <<chState, chError, chPresent, chEvents, chDone, chInput, chSteps>>
annVars   == <<annOptions, annGets, annResult>>
dsVars    == <<counter, keys, nQueries, lastReq, lastLive, lastFetch, lastStreams, lastResult,
               annVars>>
vars      == <<parseVars, chanVars, dsVars>>

-----------------------------------------------------------------------------
(* Bounds *)

\* longest id string handed to parseLiveChannelAddress
MaxLen == 5
\* longest field of an address handed to isValidLiveChannelAddress / composed
MaxField == 2
\* number of inputs (transport events and calls) delivered to a channel
MaxInputs == 6
\* number of targets of one query request
MaxTargets == 2
\* number of GrafanaDatasource.query calls
MaxQueries == 2
\* number of tags of an annotation
MaxTags == 2

-----------------------------------------------------------------------------
(* JavaScript values *)

Slash == "/"
Space == " "
\* the characters of the modelled strings: a letter, the separator, whitespace
Chars == {"a", Slash, Space}

RECURSIVE StringsOfLen(_)
StringsOfLen(n) ==
    IF n = 0 THEN {<<>>}
    ELSE {Append(s, c) : s \in StringsOfLen(n - 1), c \in Chars}

StringsUpTo(n) == UNION {StringsOfLen(k) : k \in 0..n}

Undefined == [tag |-> "undefined"]
Null      == [tag |-> "null"]
Str(s)    == [tag |-> "string", val |-> s]

IsString(v) == v.tag = "string"

\* JavaScript truthiness of undefined, null, a string or an object
Truthy(v) ==
    CASE v.tag = "undefined" -> FALSE
      [] v.tag = "null"      -> FALSE
      [] v.tag = "string"    -> Len(v.val) > 0
      [] OTHER               -> TRUE

\* id?.length as a condition: undefined for null/undefined, else the length
HasLength(id) == IsString(id) /\ Len(id.val) # 0

-----------------------------------------------------------------------------
(* String.prototype.trim, split and Array.prototype.join *)

RECURSIVE TrimStart(_)
TrimStart(s) ==
    IF s # <<>> /\ Head(s) = Space THEN TrimStart(Tail(s)) ELSE s

RECURSIVE TrimEnd(_)
TrimEnd(s) ==
    IF s # <<>> /\ s[Len(s)] = Space THEN TrimEnd(SubSeq(s, 1, Len(s) - 1)) ELSE s

Trim(s) == TrimEnd(TrimStart(s))

\* a split that drops empty parts
RECURSIVE SplitDroppingEmpty(_)
SplitDroppingEmpty(s) ==
    IF \E i \in 1..Len(s) : s[i] = Slash
    THEN LET i == CHOOSE k \in 1..Len(s) :
                    s[k] = Slash /\ \A j \in 1..(k - 1) : s[j] # Slash
             rest == SplitDroppingEmpty(SubSeq(s, i + 1, Len(s)))
         IN  IF i = 1 THEN rest ELSE <<SubSeq(s, 1, i - 1)>> \o rest
    ELSE IF s = <<>> THEN <<>> ELSE <<s>>

\* s.split('/'): always at least one part; "" gives [""]
RECURSIVE Split(_)
Split(s) ==
    IF \E i \in 1..Len(s) : s[i] = Slash
    THEN LET i == CHOOSE k \in 1..Len(s) :
                    s[k] = Slash /\ \A j \in 1..(k - 1) : s[j] # Slash
         IN  <<SubSeq(s, 1, i - 1)>> \o Split(SubSeq(s, i + 1, Len(s)))
    ELSE <<s>>

\* parts.join('/')
RECURSIVE Join(_)
Join(parts) ==
    IF parts = <<>> THEN <<>>
    ELSE IF Len(parts) = 1 THEN parts[1]
    ELSE parts[1] \o <<Slash>> \o Join(Tail(parts))

\* only the third part, as parts[2] would give
ThirdPartOnly(parts) == SubSeq(parts, 3, 3)

\* parts.slice(2)
Slice2(parts) == SubSeq(parts, 3, Len(parts))

-----------------------------------------------------------------------------
(* LiveChannelAddress *)

Address(scope, namespace, path) ==
    [tag |-> "object", scope |-> scope, namespace |-> namespace, path |-> path]

\* a test that accepts two parts
EnoughPartsTwo(parts) == Len(parts) >= 2

\* a test that also requires the first three parts to be non-empty
EnoughNonEmptyParts(parts) ==
    Len(parts) >= 3 /\ \A i \in 1..3 : parts[i] # <<>>

\* the parts.length >= 3 test of parseLiveChannelAddress
EnoughParts(parts) == Len(parts) >= 3

parseLiveChannelAddress(id) ==
    IF HasLength(id)
    THEN LET parts == Split(Trim(id.val))
         IN  IF EnoughParts(parts)
             THEN Address(Str(parts[1]), Str(parts[2]), Str(Join(Slice2(parts))))
             ELSE Undefined
    ELSE Undefined

\* a check that forgets the scope
isValidIgnoringScope(addr) ==
    /\ addr.tag = "object"
    /\ Truthy(addr.path)
    /\ Truthy(addr.namespace)

\* !!(addr?.path && addr.namespace && addr.scope)
isValidLiveChannelAddress(addr) ==
    /\ addr.tag = "object"
    /\ Truthy(addr.path)
    /\ Truthy(addr.namespace)
    /\ Truthy(addr.scope)

\* `${scope}/${namespace}/${path}` of an address whose fields are strings
ChannelId(addr) ==
    Str(addr.scope.val \o <<Slash>> \o addr.namespace.val \o <<Slash>> \o addr.path.val)

-----------------------------------------------------------------------------
(* Idle values of the variables a specification does not use *)

ParseIdle ==
    /\ pStep = "idle" /\ pId = Undefined /\ pAddr = Undefined
    /\ pOrig = Undefined /\ pValid = FALSE

ChanIdle ==
    /\ chState = "idle" /\ chError = "none" /\ chPresent = FALSE /\ chEvents = <<>>
    /\ chDone = FALSE /\ chInput = "idle" /\ chSteps = 0

DsIdle ==
    /\ counter = -1 /\ keys = <<>> /\ nQueries = 0 /\ lastReq = Undefined
    /\ lastLive = <<>> /\ lastFetch = <<>> /\ lastStreams = <<>>
    /\ lastResult = Undefined
    /\ annOptions = Undefined /\ annGets = <<>> /\ annResult = Undefined

-----------------------------------------------------------------------------
(* SpecParse: the address functions applied to bounded inputs *)

IdInputs == {Undefined, Null} \cup {Str(s) : s \in StringsUpTo(MaxLen)}

FieldInputs == {Undefined} \cup {Str(s) : s \in StringsUpTo(MaxField)}

AddrInputs ==
    {Undefined} \cup
    {Address(s, n, p) : s \in FieldInputs, n \in FieldInputs, p \in FieldInputs}

StringFields(addr) ==
    addr.tag = "object" /\ IsString(addr.scope)
        /\ IsString(addr.namespace) /\ IsString(addr.path)

\* a caller hands an id to parseLiveChannelAddress
ParseId ==
    /\ pStep \in {"id", "composed"}
    /\ pAddr' = parseLiveChannelAddress(pId)
    /\ pStep' = "parsed"
    /\ UNCHANGED <<pId, pOrig, pValid>>

\* a caller hands an address (possibly a parse result) to isValidLiveChannelAddress
Validate ==
    /\ pStep \in {"address", "parsed"}
    /\ pValid' = isValidLiveChannelAddress(pAddr)
    /\ pStep' = "validated"
    /\ UNCHANGED <<pId, pAddr, pOrig>>

\* a caller formats the id of an address
Compose ==
    /\ pStep = "address"
    /\ StringFields(pAddr)
    /\ pId' = ChannelId(pAddr)
    /\ pOrig' = pAddr
    /\ pStep' = "composed"
    /\ UNCHANGED <<pAddr, pValid>>

InitParse ==
    /\ \/ pStep = "id" /\ pId \in IdInputs /\ pAddr = Undefined
       \/ pStep = "address" /\ pId = Undefined /\ pAddr \in AddrInputs
    /\ pOrig = Undefined
    /\ pValid = FALSE


NextParse ==
    \/ ParseId /\ UNCHANGED <<chanVars, dsVars>>
    \/ Validate /\ UNCHANGED <<chanVars, dsVars>>
    \/ Compose /\ UNCHANGED <<chanVars, dsVars>>

StartParse == InitParse /\ ChanIdle /\ DsIdle

SpecParse == StartParse /\ [][NextParse]_vars

-----------------------------------------------------------------------------
(* Vocabulary of the address claims, stated on the characters of the id *)

\* number of '/' characters in a string
CountSlash(s) == Cardinality({i \in 1..Len(s) : s[i] = Slash})

\* number of '/'-separated segments of a string
Segments(s) == CountSlash(s) + 1

NoSlash(s) == CountSlash(s) = 0

NonEmptyString(v) == v.tag = "string" /\ v.val # <<>>

\* the address is an object whose three fields are strings, scope and
\* namespace are free of '/', and scope/namespace/path spells s
Spells(addr, s) ==
    /\ StringFields(addr)
    /\ NoSlash(addr.scope.val)
    /\ NoSlash(addr.namespace.val)
    /\ addr.scope.val \o <<Slash>> \o addr.namespace.val \o <<Slash>> \o addr.path.val = s

\* C1: parseLiveChannelAddress returns undefined for every id with fewer
\* than 3 '/'-separated segments, the empty string, null and undefined.
C1_FewSegmentsUndefined ==
    (pStep = "parsed" /\ (~IsString(pId) \/ Segments(pId.val) < 3))
        => pAddr = Undefined

C1_Witness ==
    /\ pStep = "parsed" /\ IsString(pId) /\ Segments(pId.val) = 2
    /\ Len(pId.val) = MaxLen /\ pAddr = Undefined

\* C2 as stated: for an id with at least 3 segments the result spells the
\* id itself: scope is segment 0 of the id verbatim, namespace segment 1,
\* path the rest with its slashes.
C2_Original ==
    (pStep = "parsed" /\ IsString(pId) /\ Segments(pId.val) >= 3)
        => Spells(pAddr, pId.val)

\* C2 amended: for an id with at least 3 segments the result spells the id
\* with its leading and trailing whitespace trimmed: scope is segment 0,
\* namespace segment 1 and path the remaining segments rejoined with '/',
\* of the trimmed id.
C2_SpellsTrimmedId ==
    (pStep = "parsed" /\ IsString(pId) /\ Segments(pId.val) >= 3)
        => Spells(pAddr, Trim(pId.val))

C2_Witness ==
    /\ pStep = "parsed" /\ IsString(pId) /\ Segments(pId.val) = 4
    /\ StringFields(pAddr) /\ CountSlash(pAddr.path.val) = 1
    /\ pAddr.scope.val = <<"a">>

\* C3: isValidLiveChannelAddress(addr) is true iff addr is defined and its
\* scope, namespace and path are all non-empty strings.
C3_ValidIffAllNonEmpty ==
    pStep = "validated" =>
        (pValid <=> /\ pAddr # Undefined
                    /\ NonEmptyString(pAddr.scope)
                    /\ NonEmptyString(pAddr.namespace)
                    /\ NonEmptyString(pAddr.path))

C3_Witness ==
    /\ pStep = "validated" /\ pValid /\ pId = Undefined
    /\ pAddr.path.val = <<"a", Slash>>

SlashFree(addr) ==
    NoSlash(addr.scope.val) /\ NoSlash(addr.namespace.val) /\ NoSlash(addr.path.val)

\* C4 as stated: parsing the id composed from an address none of whose
\* fields contains '/' gives the same address back.
C4_Original ==
    (pStep = "parsed" /\ pOrig # Undefined /\ SlashFree(pOrig))
        => pAddr = pOrig

\* C4 amended: parsing the id composed from an address none of whose fields
\* contains '/', whose scope does not start with whitespace and whose path
\* does not end with whitespace, gives the same address back.
C4_RoundTrip ==
    (/\ pStep = "parsed" /\ pOrig # Undefined /\ SlashFree(pOrig)
     /\ TrimStart(pOrig.scope.val) = pOrig.scope.val
     /\ TrimEnd(pOrig.path.val) = pOrig.path.val)
        => pAddr = pOrig

C4_Witness ==
    /\ pStep = "parsed" /\ pOrig # Undefined /\ SlashFree(pOrig)
    /\ pOrig.scope.val = <<"a", Space>> /\ pOrig.namespace.val = <<>>
    /\ pOrig.path.val = <<Space, "a">>
    /\ pAddr = pOrig

\* C5 as stated: parseLiveChannelAddress returns an address only when
\* scope, namespace and path are all non-empty.
C5_Original ==
    (pStep = "parsed" /\ pAddr # Undefined)
        => /\ NonEmptyString(pAddr.scope)
           /\ NonEmptyString(pAddr.namespace)
           /\ NonEmptyString(pAddr.path)

\* C5 amended: parseLiveChannelAddress returns an address exactly when the
\* id is a string with at least 3 segments, empty segments included: an
\* empty segment gives an empty field, never undefined.
C5_AddressIffThreeSegments ==
    pStep = "parsed" =>
        (pAddr # Undefined <=> (IsString(pId) /\ Segments(pId.val) >= 3))

C5_Witness ==
    /\ pStep = "parsed" /\ pId = Str(<<"a", Slash, Slash, "a">>)
    /\ pAddr = Address(Str(<<"a">>), Str(<<>>), Str(<<"a">>))

-----------------------------------------------------------------------------
(* SpecChannel: the connection lifecycle of one LiveChannel.  The transport *)
(* delivers its events and the caller calls disconnect() in any state; the *)
(* handler decides from the current state what, if anything, happens.      *)

Pending      == "pending"
Connected    == "connected"
Disconnected == "disconnected"
Shutdown     == "shutdown"
Invalid      == "invalid"

Terminal == {Shutdown, Invalid}

Errors == {"e1", "e2"}

StatusEvent(state, error) == [type |-> "status", state |-> state, error |-> error]
MessageEvent == [type |-> "message"]
JoinEvent    == [type |-> "join"]
LeaveEvent   == [type |-> "leave"]

\* a connection attempt that succeeds is taken up while Pending or Disconnected
CanConnectAlways(state) == TRUE

CanConnect(state) == state \in {Pending, Disconnected}

\* the error carried by the Status event of a successful (re)connect
ErrorCleared(error) == "none"

ErrorAfterConnect(error) == error

Deliver(input) ==
    /\ chState # "none"
    /\ chSteps < MaxInputs
    /\ chSteps' = chSteps + 1
    /\ chInput' = input

InitChannel ==
    /\ chState = "none" /\ chError = "none" /\ chPresent = FALSE
    /\ chEvents = <<>> /\ chDone = FALSE /\ chInput = "none" /\ chSteps = 0

\* (none) -> Pending | Invalid, by the validity of the channel configuration
Subscribe ==
    /\ chState = "none"
    /\ \E valid \in BOOLEAN : chState' = IF valid THEN Pending ELSE Invalid
    /\ chInput' = "subscribe"
    /\ UNCHANGED <<chError, chPresent, chEvents, chDone, chSteps>>

\* handshake success (Pending) or retry success (Disconnected)
ConnectSuccess ==
    /\ Deliver("success")
    /\ IF CanConnect(chState)
       THEN /\ chState' = Connected
            /\ chError' = ErrorAfterConnect(chError)
            /\ chEvents' = Append(chEvents, StatusEvent(Connected, chError'))
       ELSE UNCHANGED <<chState, chError, chEvents>>
    /\ UNCHANGED <<chPresent, chDone>>

\* handshake failure (Pending) or retry failure (Disconnected): error (re)placed
ConnectFailure ==
    /\ Deliver("failure")
    /\ \E e \in Errors :
        IF chState \in {Pending, Disconnected}
        THEN /\ chState' = Disconnected
             /\ chError' = e
             /\ chEvents' = Append(chEvents, StatusEvent(Disconnected, e))
        ELSE UNCHANGED <<chState, chError, chEvents>>
    /\ UNCHANGED <<chPresent, chDone>>

\* Connected -> Disconnected with the error set
TransportDrop ==
    /\ Deliver("drop")
    /\ \E e \in Errors :
        IF chState = Connected
        THEN /\ chState' = Disconnected
             /\ chError' = e
             /\ chPresent' = FALSE
             /\ chEvents' = Append(chEvents, StatusEvent(Disconnected, e))
        ELSE UNCHANGED <<chState, chError, chPresent, chEvents>>
    /\ UNCHANGED chDone

\* a message successfully received on the connection clears the error
ReceiveMessage ==
    /\ Deliver("message")
    /\ IF chState = Connected
       THEN /\ chError' = "none"
            /\ chEvents' = Append(chEvents, MessageEvent)
       ELSE UNCHANGED <<chError, chEvents>>
    /\ UNCHANGED <<chState, chPresent, chDone>>

\* presence: the Join of a user precedes its Leave
ReceiveJoin ==
    /\ Deliver("join")
    /\ IF chState = Connected /\ ~chPresent
       THEN /\ chPresent' = TRUE
            /\ chEvents' = Append(chEvents, JoinEvent)
       ELSE UNCHANGED <<chPresent, chEvents>>
    /\ UNCHANGED <<chState, chError, chDone>>

ReceiveLeave ==
    /\ Deliver("leave")
    /\ IF chState = Connected /\ chPresent
       THEN /\ chPresent' = FALSE
            /\ chEvents' = Append(chEvents, LeaveEvent)
       ELSE UNCHANGED <<chPresent, chEvents>>
    /\ UNCHANGED <<chState, chError, chDone>>

\* disconnect(): idempotent; any non-terminal state -> Shutdown, a final
\* Status(Shutdown) and the stream completes
Disconnect ==
    /\ Deliver("disconnect")
    /\ IF chState \notin Terminal
       THEN /\ chState' = Shutdown
            /\ chEvents' = Append(chEvents, StatusEvent(Shutdown, chError))
            /\ chDone' = TRUE
       ELSE UNCHANGED <<chState, chEvents, chDone>>
    /\ UNCHANGED <<chError, chPresent>>

NextChannel ==
    \/ Subscribe /\ UNCHANGED <<parseVars, dsVars>>
    \/ ConnectSuccess /\ UNCHANGED <<parseVars, dsVars>>
    \/ ConnectFailure /\ UNCHANGED <<parseVars, dsVars>>
    \/ TransportDrop /\ UNCHANGED <<parseVars, dsVars>>
    \/ ReceiveMessage /\ UNCHANGED <<parseVars, dsVars>>
    \/ ReceiveJoin /\ UNCHANGED <<parseVars, dsVars>>
    \/ ReceiveLeave /\ UNCHANGED <<parseVars, dsVars>>
    \/ Disconnect /\ UNCHANGED <<parseVars, dsVars>>

StartChannel == InitChannel /\ ParseIdle /\ DsIdle

SpecChannel == StartChannel /\ [][NextChannel]_vars

\* a step out of a terminal state keeps the state and emits nothing
StaysFinal == chState \in Terminal => (chState' = chState /\ chEvents' = chEvents)

\* C6: once the state is Shutdown or Invalid, no transport event and no
\* disconnect() changes it again, and no further event is emitted.
C6_TerminalStatesAreFinal == [][StaysFinal]_vars

\* a successful connect is delivered after the channel was shut down
C6_Witness ==
    /\ chState = Shutdown /\ chInput = "success" /\ chSteps = MaxInputs
    /\ chEvents[Len(chEvents)] = StatusEvent(Shutdown, "e1")

IsStatus(e) == e.type = "status"

\* C7: after a Status event with an error, every later Status event carries
\* an error too, unless a Message event came in between.
C7_ErrorIsSticky ==
    \A i \in 1..Len(chEvents) : \A j \in (i + 1)..Len(chEvents) :
        (/\ IsStatus(chEvents[i]) /\ chEvents[i].error # "none"
         /\ IsStatus(chEvents[j])
         /\ \A k \in (i + 1)..(j - 1) : chEvents[k] # MessageEvent)
            => chEvents[j].error # "none"

\* a reconnect keeps the error, a message clears it, the next Status has none
C7_Witness ==
    \E i \in 1..Len(chEvents) :
        /\ i + 3 <= Len(chEvents)
        /\ chEvents[i] = StatusEvent(Disconnected, "e1")
        /\ chEvents[i + 1] = StatusEvent(Connected, "e1")
        /\ chEvents[i + 2] = MessageEvent
        /\ chEvents[i + 3] = StatusEvent(Shutdown, "none")

-----------------------------------------------------------------------------
(* Spec: GrafanaDatasource.query *)

\* let counter = 100
CounterStart == 100

LiveMeasurements == "measurements"
RandomWalk       == "randomWalk"

\* decimal digits of a number, as `${n}` prints it
Digit(d) ==
    CASE d = 0 -> "0" [] d = 1 -> "1" [] d = 2 -> "2" [] d = 3 -> "3"
      [] d = 4 -> "4" [] d = 5 -> "5" [] d = 6 -> "6" [] d = 7 -> "7"
      [] d = 8 -> "8" [] d = 9 -> "9"

RECURSIVE Decimal(_)
Decimal(n) ==
    IF n < 10 THEN <<Digit(n)>> ELSE Append(Decimal(n \div 10), Digit(n % 10))

\* `${request.requestId}.${counter}`
StreamKey(requestId, c) == requestId \o <<".">> \o Decimal(c)

\* counter++ leaves the counter unchanged
CounterStuck(c) == c

\* the value of counter after counter++
CounterAfter(c) == c + 1

\* no target is skipped
NeverHidden(target) == FALSE

\* if (target.hide) continue
Hidden(target) == target.hide

\* getLiveDataStream({key, addr, filter, buffer}): filter and buffer are handed
\* over as given and decide nothing here
LiveStream(key, addr) == [kind |-> "live", key |-> key, addr |-> addr]

\* getRandomWalk(request): getBackendSrv().fetch({url, requestId, ...}).pipe(...)
RandomWalkFetch(requestId) ==
    [url |-> "/api/tsdb/testdata/random-walk", requestId |-> requestId]

RandomWalkStream(requestId) ==
    [kind |-> "randomWalk", fetch |-> RandomWalkFetch(requestId)]

\* one iteration of the for loop of query: run is the queries array, the
\* getLiveDataStream calls and fetches made so far, and the counter
LoopBody(request, target, run) ==
    IF Hidden(target) THEN run
    ELSE IF target.queryType = LiveMeasurements
    THEN IF Truthy(target.channel)
         THEN LET addr == parseLiveChannelAddress(target.channel)
                  s    == LiveStream(StreamKey(request.requestId, run.counter), addr)
              IN  [queries |-> Append(run.queries, s),
                   live    |-> Append(run.live, s),
                   fetch   |-> run.fetch,
                   counter |-> CounterAfter(run.counter)]
         ELSE run
    ELSE LET s == RandomWalkStream(request.requestId)
         IN  [queries |-> Append(run.queries, s),
              live    |-> run.live,
              fetch   |-> Append(run.fetch, s.fetch),
              counter |-> run.counter]

\* the for loop of query over request.targets, from index i
RECURSIVE QueryLoop(_, _, _)
QueryLoop(request, i, run) ==
    IF i > Len(request.targets) THEN run
    ELSE QueryLoop(request, i + 1, LoopBody(request, request.targets[i], run))

\* what query returns for its queries array
QueryResult(queries) ==
    IF Len(queries) = 1 THEN queries[1]
    ELSE IF Len(queries) > 1 THEN [kind |-> "merge", of |-> queries]
    ELSE [kind |-> "empty"]

RequestIds == {<<"Q">>, <<"Q", ".", "1">>}

Channels ==
    {Undefined, Str(<<>>), Str(<<"a", Slash, "a">>), Str(<<"a", Slash, "a", Slash, "a">>)}

Targets ==
    [hide : BOOLEAN, queryType : {LiveMeasurements, RandomWalk}, channel : Channels]

TargetLists == UNION {[1..n -> Targets] : n \in 0..MaxTargets}

Requests == [requestId : RequestIds, targets : TargetLists]

Init ==
    /\ counter = CounterStart
    /\ keys = <<>>
    /\ nQueries = 0
    /\ lastReq = Undefined
    /\ lastLive = <<>>
    /\ lastFetch = <<>>
    /\ lastStreams = <<>>
    /\ lastResult = Undefined
    /\ annOptions = Undefined
    /\ annGets = <<>>
    /\ annResult = Undefined

\* query(request): the whole call, up to its return
Query ==
    /\ lastReq = Undefined
    /\ annOptions = Undefined
    /\ nQueries < MaxQueries
    /\ \E request \in Requests :
      \E run \in {QueryLoop(request, 1,
                    [queries |-> <<>>, live |-> <<>>, fetch |-> <<>>, counter |-> counter])} :
        /\ counter' = run.counter
        /\ keys' = keys \o [k \in 1..Len(run.live) |-> run.live[k].key]
        /\ lastReq' = request
        /\ lastLive' = run.live
        /\ lastFetch' = run.fetch
        /\ lastStreams' = run.queries
        /\ lastResult' = QueryResult(run.queries)
    /\ nQueries' = nQueries + 1
    /\ UNCHANGED annVars

\* the caller has taken the returned observable: the call's request, its
\* queries array and its result are gone; counter stays
Returned ==
    /\ lastReq # Undefined
    /\ lastReq' = Undefined
    /\ lastLive' = <<>>
    /\ lastFetch' = <<>>
    /\ lastStreams' = <<>>
    /\ lastResult' = Undefined
    /\ UNCHANGED <<counter, keys, nQueries, annVars>>

-----------------------------------------------------------------------------
(* GrafanaDatasource.annotationQuery *)

DashboardType == "dashboard"
TagsType      == "tags"

Num(n) == [tag |-> "number", val |-> n]
Array(elems) == [tag |-> "array", val |-> elems]

\* !options.dashboard.id is false: the id is a number other than 0
HasDashboardId(id) == id.tag = "number" /\ id.val # 0

\* Array.isArray(annotation.tags) && annotation.tags.length !== 0
NonEmptyArray(tags) == tags.tag = "array" /\ Len(tags.val) # 0

\* const delimiter = '__delimiter__'
Delimiter == "__delimiter__"

\* values.join(delimiter); a rendered string is a sequence of pieces, the
\* delimiter being one piece
RECURSIVE JoinDelimiter(_)
JoinDelimiter(values) ==
    IF values = <<>> THEN <<>>
    ELSE IF Len(values) = 1 THEN <<values[1]>>
    ELSE <<values[1], Delimiter>> \o JoinDelimiter(Tail(values))

\* templateSrv.replace(t, {}, format): a literal tag renders as itself, a
\* variable as format(value): a string value as it is, a list joined
TemplateReplace(t) ==
    IF t.kind = "text" THEN <<t.text>> ELSE JoinDelimiter(t.values)

\* renderedValues.split(delimiter)
RECURSIVE SplitDelimiter(_)
SplitDelimiter(s) ==
    IF \E i \in 1..Len(s) : s[i] = Delimiter
    THEN LET i == CHOOSE k \in 1..Len(s) :
                    s[k] = Delimiter /\ \A j \in 1..(k - 1) : s[j] # Delimiter
         IN  <<SubSeq(s, 1, i - 1)>> \o SplitDelimiter(SubSeq(s, i + 1, Len(s)))
    ELSE <<s>>

\* the loop over params.tags: every rendered value of every tag, in order
RECURSIVE RenderTags(_)
RenderTags(tags) ==
    IF tags = <<>> THEN <<>>
    ELSE SplitDelimiter(TemplateReplace(Head(tags))) \o RenderTags(Tail(tags))

\* the tags filter stays in the parameters
KeepTags(params) == params

\* delete params.tags
DeleteTags(params) == [f \in (DOMAIN params) \ {"tags"} |-> params[f]]

\* params.dashboardId = options.dashboard.id
WithDashboardId(params, id) ==
    [f \in (DOMAIN params) \cup {"dashboardId"} |->
        IF f = "dashboardId" THEN id ELSE params[f]]

\* params.tags = tags
WithTags(params, tags) == [params EXCEPT !.tags = tags]

\* Promise.resolve([])
ResolvedEmpty == [kind |-> "resolved", value |-> <<>>]

\* getBackendSrv().get('/api/annotations', params, requestId)
AnnotationsGet(params) == [kind |-> "get", url |-> "/api/annotations", params |-> params]

\* annotationQuery(options): the get calls it makes and what it returns.
\* from, to, limit and matchAny are copied into params as given.
annotationQuery(options) ==
    LET params == [limit |-> options.limit, tags |-> options.tags] IN
    IF options.type = DashboardType
    THEN IF ~HasDashboardId(options.dashboardId)
         THEN [gets |-> <<>>, result |-> ResolvedEmpty]
         ELSE LET get == AnnotationsGet(
                            DeleteTags(WithDashboardId(params, options.dashboardId)))
              IN  [gets |-> <<get>>, result |-> get]
    ELSE IF ~NonEmptyArray(options.tags)
         THEN [gets |-> <<>>, result |-> ResolvedEmpty]
         ELSE LET get == AnnotationsGet(
                            WithTags(params, Array(RenderTags(options.tags.val))))
              IN  [gets |-> <<get>>, result |-> get]

\* a literal tag, a variable with one value, a variable with a list of values
TagInputs ==
    {[kind |-> "text", text |-> "a"],
     [kind |-> "var", values |-> <<"b">>],
     [kind |-> "var", values |-> <<"b", "c">>]}

TagListInputs == UNION {[1..n -> TagInputs] : n \in 0..MaxTags}

TagsInputs == {Undefined, Str(<<"a">>)} \cup {Array(l) : l \in TagListInputs}

DashboardIdInputs == {Undefined, Null, Num(0), Num(1)}

AnnotationOptions ==
    [type : {DashboardType, TagsType}, tags : TagsInputs,
     dashboardId : DashboardIdInputs, limit : {Num(100)}]

\* annotationQuery(options): the whole call, up to its return
AnnotationQuery ==
    /\ lastReq = Undefined
    /\ annOptions = Undefined
    /\ \E options \in AnnotationOptions :
      \E out \in {annotationQuery(options)} :
        /\ annOptions' = options
        /\ annGets' = out.gets
        /\ annResult' = out.result
    /\ UNCHANGED <<counter, keys, nQueries, lastReq, lastLive, lastFetch,
                   lastStreams, lastResult>>

\* the caller has taken the returned promise
AnnotationReturned ==
    /\ annOptions # Undefined
    /\ annOptions' = Undefined
    /\ annGets' = <<>>
    /\ annResult' = Undefined
    /\ UNCHANGED <<counter, keys, nQueries, lastReq, lastLive, lastFetch,
                   lastStreams, lastResult>>

Next ==
    \/ Query /\ UNCHANGED <<parseVars, chanVars>>
    \/ Returned /\ UNCHANGED <<parseVars, chanVars>>
    \/ AnnotationQuery /\ UNCHANGED <<parseVars, chanVars>>
    \/ AnnotationReturned /\ UNCHANGED <<parseVars, chanVars>>

Start == Init /\ ParseIdle /\ ChanIdle

Spec == Start /\ [][Next]_vars


-----------------------------------------------------------------------------
(* Claims about GrafanaDatasource.query *)

\* a query call has just returned
Called == lastReq # Undefined

\* C8: query never hands an undefined addr to getLiveDataStream.
C8_LiveAddrDefined ==
    Called => \A k \in 1..Len(lastLive) : lastLive[k].addr # Undefined

\* C9: the counter has grown by exactly one per live stream requested, and
\* no two getLiveDataStream calls ever received the same key.
C9_KeysUnique ==
    /\ counter = CounterStart + Len(keys)
    /\ \A i \in 1..Len(keys) : \A j \in 1..Len(keys) :
          i # j => keys[i] # keys[j]

\* two calls with the same requestId, two live streams each
C9_Witness ==
    /\ nQueries = 2 /\ Len(keys) = 4
    /\ keys[1] = <<"Q", ".", "1", "0", "0">>
    /\ keys[4] = <<"Q", ".", "1", "0", "3">>
    /\ Called /\ Len(lastLive) = 2

\* the targets that contribute a stream: not hidden, and either not a
\* LiveMeasurements query or one with a non-empty channel
Contributes(target) ==
    /\ ~target.hide
    /\ \/ target.queryType # LiveMeasurements
       \/ NonEmptyString(target.channel)

IsLiveTarget(target) == Contributes(target) /\ target.queryType = LiveMeasurements
IsWalkTarget(target) == Contributes(target) /\ target.queryType # LiveMeasurements

\* C10: one stream per contributing target, in target order; live requests
\* only for the contributing LiveMeasurements targets and backend fetches
\* only for the contributing other targets; one stream is returned as is,
\* several as their merge, none as an empty observable.
C10_OneStreamPerContributingTarget ==
    Called =>
        LET contributing == SelectSeq(lastReq.targets, Contributes) IN
        /\ Len(lastStreams) = Len(contributing)
        /\ \A k \in 1..Len(contributing) :
              lastStreams[k].kind =
                  IF contributing[k].queryType = LiveMeasurements
                  THEN "live" ELSE "randomWalk"
        /\ Len(lastLive) = Len(SelectSeq(lastReq.targets, IsLiveTarget))
        /\ Len(lastFetch) = Len(SelectSeq(lastReq.targets, IsWalkTarget))
        /\ Len(lastStreams) = 1 => lastResult = lastStreams[1]
        /\ Len(lastStreams) > 1 =>
              lastResult.kind = "merge" /\ lastResult.of = lastStreams
        /\ Len(lastStreams) = 0 => lastResult = [kind |-> "empty"]

\* a hidden live target and a random walk target: the single stream as is
C10_Witness ==
    /\ Called
    /\ Len(lastReq.targets) = 2
    /\ lastReq.targets[1] =
          [hide |-> TRUE, queryType |-> LiveMeasurements,
           channel |-> Str(<<"a", Slash, "a", Slash, "a">>)]
    /\ ~lastReq.targets[2].hide /\ lastReq.targets[2].queryType = RandomWalk
    /\ lastResult.kind = "randomWalk"
    /\ lastLive = <<>> /\ Len(lastFetch) = 1

-----------------------------------------------------------------------------
(* Claims about GrafanaDatasource.annotationQuery *)

\* an annotationQuery call has just returned
AnnotationCalled == annOptions # Undefined

\* the dashboard has no id
NoDashboardId(options) == options.dashboardId \in {Undefined, Null}

\* tags is an array with at least one element
TagsGiven(options) ==
    options.tags.tag = "array" /\ options.tags.val # <<>>

\* C11: annotationQuery resolves to an empty list and sends no request when
\* the type is Dashboard and the dashboard has no id, and when the type is
\* not Dashboard and tags is not a non-empty array; a request sent for a
\* Dashboard annotation goes to /api/annotations with the dashboard's id as
\* dashboardId and without a tags parameter.
C11_AnnotationQueryGuards ==
    AnnotationCalled =>
        /\ (annOptions.type = DashboardType /\ NoDashboardId(annOptions))
              => (annResult = ResolvedEmpty /\ annGets = <<>>)
        /\ (annOptions.type # DashboardType /\ ~TagsGiven(annOptions))
              => (annResult = ResolvedEmpty /\ annGets = <<>>)
        /\ (annOptions.type = DashboardType /\ annGets # <<>>)
              => /\ Len(annGets) = 1
                 /\ annGets[1].url = "/api/annotations"
                 /\ "dashboardId" \in DOMAIN annGets[1].params
                 /\ annGets[1].params.dashboardId = annOptions.dashboardId
                 /\ "tags" \notin DOMAIN annGets[1].params

\* a Dashboard annotation that has tags and a dashboard id: one request sent
C11_Witness ==
    /\ AnnotationCalled
    /\ annOptions.type = DashboardType
    /\ TagsGiven(annOptions)
    /\ annOptions.dashboardId = Num(1)
    /\ Len(annGets) = 1
    /\ annResult = annGets[1]

=============================================================================
